---- MODULE Spec2Model ----
(***************************************************************************)
(* Fintech-usage dashboard (src/app.py): the loader/cleaner load_data and  *)
(* its cache, the filter step of main, and the aggregations of the page    *)
(* functions (kpis, trends_page, conclusion_page, usecases_page).          *)
(*                                                                         *)
(* A data frame is [cols |-> set of column names, rows |-> sequence of     *)
(* records], a record being a function from the frame's columns to cells.  *)
(* A cell of a string column is a string, NA when the value is missing.    *)
(* A numeric Year is an integer counting halves of a year (2020.5 is       *)
(* 4041), so that a fractional year and its truncation by int() or         *)
(* astype(int) stay distinct; NaN is the missing number.                   *)
(***************************************************************************)
EXTENDS Integers, Sequences, FiniteSets, TLC

VARIABLES fs, STREAMLIT_AVAILABLE, cache, reads, calls, writes, first, ret,
          df, page, sel, df_filtered, out

vars == <<fs, STREAMLIT_AVAILABLE, cache, reads, calls, writes, first, ret,
          df, page, sel, df_filtered, out>>

loadVars == <<fs, STREAMLIT_AVAILABLE, cache, reads, calls, writes, first, ret>>
mainVars == <<df, page, sel, df_filtered, out>>

(***************************************************************************)
(* Bounds of the model.                                                    *)
(***************************************************************************)
MaxRows == 2
MaxAggRows == 2
MaxLoads == 3
MaxWrites == 1

(***************************************************************************)
(* Cells and columns.                                                      *)
(***************************************************************************)
NA == "<NA>"
NaN == -1
None == "<None>"

Columns ==
    {"Country", "Gender", "Age_Group", "Fintech_Used", "Year", "Urban_Rural",
     "Phone_Type", "Use_Case_1", "Use_Case_2", "Barrier",
     "Monthly_Transactions", "Avg_Transaction_Value"}

str_cols ==
    {"Fintech_Used", "Country", "Gender", "Age_Group",
     "Use_Case_1", "Use_Case_2", "Urban_Rural", "Phone_Type"}

num_cols == {"Monthly_Transactions", "Avg_Transaction_Value"}

Halves(whole, half) == 2 * whole + half

\* pd.to_numeric(errors='coerce') on one cell of the Year column as read_csv
\* left it: a number, or NaN for a missing or unparseable cell.
to_numeric(cell) ==
    CASE cell = "2020"   -> Halves(2020, 0)
      [] cell = "2020.5" -> Halves(2020, 1)
      [] cell = "2021"   -> Halves(2021, 0)
      [] cell = "2021.5" -> Halves(2021, 1)
      [] OTHER           -> NaN

\* int(x) and astype(int) of a non-null float: truncation.
int(v) == v \div 2

\* fillna('Unknown').astype(str) on one cell of a string column.
fillna_str(cell) == IF cell = NA THEN "Unknown" ELSE cell

\* str.lower() on the values Fintech_Used takes in the model.
lower(s) ==
    CASE s = "Yes" -> "yes"
      [] s = "YES" -> "yes"
      [] s = "yEs" -> "yes"
      [] s = "No"  -> "no"
      [] s = "NO"  -> "no"
      [] s = "Unknown" -> "unknown"
      [] OTHER -> s

EmptyFrame == [cols |-> {}, rows |-> <<>>]

(***************************************************************************)
(* load_data, lines 22-42.                                                 *)
(***************************************************************************)
clean_record(r, cols) ==
    [c \in cols \cup num_cols |->
        IF c \notin cols THEN 0
        ELSE IF c = "Year" THEN to_numeric(r[c])
        ELSE IF c \in str_cols THEN fillna_str(r[c])
        ELSE r[c]]

\* The body of load_data on the frame pd.read_csv returns.
load_data_body(raw) ==
    [cols |-> raw.cols \cup num_cols,
     rows |-> [i \in 1..Len(raw.rows) |-> clean_record(raw.rows[i], raw.cols)]]

read_csv(path) == fs[path]

\* load_data as decorated: st.cache_data memoizes per argument when streamlit
\* is importable, and the fallback _cache returns the function unchanged.
\* What one call does: the value returned, whether the file is read, and the
\* cache afterwards.
load_data_memo_any_path(path) ==
    IF STREAMLIT_AVAILABLE /\ DOMAIN cache # {}
    THEN [value |-> cache[CHOOSE p \in DOMAIN cache : TRUE], read |-> FALSE, cache |-> cache]
    ELSE LET v == load_data_body(read_csv(path))
         IN  [value |-> v, read |-> TRUE,
              cache |-> IF STREAMLIT_AVAILABLE
                        THEN [p \in DOMAIN cache \cup {path} |->
                                 IF p = path THEN v ELSE cache[p]]
                        ELSE cache]

load_data(path) ==
    IF STREAMLIT_AVAILABLE /\ path \in DOMAIN cache
    THEN [value |-> cache[path], read |-> FALSE, cache |-> cache]
    ELSE LET v == load_data_body(read_csv(path))
         IN  [value |-> v, read |-> TRUE,
              cache |-> IF STREAMLIT_AVAILABLE
                        THEN [p \in DOMAIN cache \cup {path} |->
                                 IF p = path THEN v ELSE cache[p]]
                        ELSE cache]

(***************************************************************************)
(* Input files.                                                            *)
(***************************************************************************)
DataPath == "datasets/fintech_usage_africa.csv"
OtherPath == "datasets/other.csv"
Paths == {DataPath, OtherPath}

Rec(country, gender, age, used, year, loc, uc1, barrier) ==
    [c \in Columns |->
        CASE c = "Country" -> country
          [] c = "Gender" -> gender
          [] c = "Age_Group" -> age
          [] c = "Fintech_Used" -> used
          [] c = "Year" -> year
          [] c = "Urban_Rural" -> loc
          [] c = "Phone_Type" -> "Smartphone"
          [] c = "Use_Case_1" -> uc1
          [] c = "Use_Case_2" -> NA
          [] c = "Barrier" -> barrier
          [] c = "Monthly_Transactions" -> 5
          [] c = "Avg_Transaction_Value" -> 20]

Restrict(r, cols) == [c \in cols |-> r[c]]

MkFrame(cols, s) == [cols |-> cols, rows |-> [i \in 1..Len(s) |-> Restrict(s[i], cols)]]

SeqsUpTo(S, n) == UNION {[1..k -> S] : k \in 0..n}

Respondent1 == Rec("Kenya", "Female", "18-25", "Yes", "2020", "Urban", "Payments", "Cost")
Respondent2 == Rec("Ghana", "Male", "26-35", "no", "2021", "Rural", "Savings", NA)
Respondent3 == Rec("Kenya", "Male", "18-25", "YES", NA, "Rural", NA, "Trust")
Respondent4 == Rec(NA, "Female", "26-35", "no", "2020.5", "Urban", "Payments", "Cost")

RawRecs == {Respondent1, Respondent2, Respondent3, Respondent4}

\* The columns a file may lack (one of them at a time).
Droppable ==
    {"Country", "Gender", "Age_Group", "Fintech_Used", "Year", "Urban_Rural",
     "Phone_Type", "Use_Case_1", "Barrier", "Monthly_Transactions"}

\* The input files of the render cycles: every column present and up to
\* MaxRows rows, or one column absent and rows of the first two respondents.
Files ==
    {MkFrame(Columns, s) : s \in SeqsUpTo(RawRecs, MaxRows)}
    \cup {MkFrame(Columns \ {c}, s) :
             c \in Droppable, s \in SeqsUpTo({Respondent1, Respondent2}, MaxRows)}

FilesLoad ==
    {MkFrame(Columns, <<Respondent1>>),
     MkFrame(Columns \ {"Monthly_Transactions"},
             <<Rec("Ghana", "Male", "26-35", "no", "unknown", "Rural", NA, NA)>>),
     MkFrame(Columns \ {"Country"}, <<>>)}

(***************************************************************************)
(* Helpers on frames and series.                                           *)
(***************************************************************************)
Rat(n, d) == [num |-> n, den |-> d]
Zero == Rat(0, 1)

Min(S) == CHOOSE x \in S : \A y \in S : x <= y
Max(S) == CHOOSE x \in S : \A y \in S : x >= y

RECURSIVE SortedSeq(_)
SortedSeq(S) == IF S = {} THEN <<>> ELSE <<Min(S)>> \o SortedSeq(S \ {Min(S)})

Cells(rows, c) == {rows[i][c] : i \in 1..Len(rows)}

Series(rows, c) == [i \in 1..Len(rows) |-> rows[i][c]]

head(s, n) == SubSeq(s, 1, IF Len(s) < n THEN Len(s) ELSE n)

\* df[mask]: the rows whose mask is true, in the frame's order.
RECURSIVE BoolIndex(_, _)
BoolIndex(rows, mask) ==
    IF rows = <<>> THEN <<>>
    ELSE (IF mask[1] THEN <<Head(rows)>> ELSE <<>>)
         \o BoolIndex(Tail(rows), [i \in 1..(Len(rows) - 1) |-> mask[i + 1]])

Mask(rows, P(_)) == [i \in 1..Len(rows) |-> P(rows[i])]

\* df['Fintech_Used'].str.lower() == 'yes'
is_fintech_user(r) == lower(r["Fintech_Used"]) = "yes"

\* groupby(c).size(): one entry per distinct non-null key, ascending by key.
groupby_size(rows, c) ==
    LET keys == SortedSeq(Cells(rows, c) \ {NaN})
    IN  [k \in 1..Len(keys) |->
            [key |-> keys[k],
             size |-> Cardinality({i \in 1..Len(rows) : rows[i][c] = keys[k]})]]

RECURSIVE SumSizes(_)
SumSizes(g) == IF g = <<>> THEN 0 ELSE Head(g).size + SumSizes(Tail(g))

replace_nan_skipped(s) == s

\* Series.replace('nan', 'Unknown')
replace_nan(s) == [i \in 1..Len(s) |-> IF s[i] = "nan" THEN "Unknown" ELSE s[i]]

\* Series.dropna()
RECURSIVE dropna(_)
dropna(s) ==
    IF s = <<>> THEN <<>>
    ELSE (IF Head(s) = NA THEN <<>> ELSE <<Head(s)>>) \o dropna(Tail(s))

Count(s, v) == Cardinality({i \in 1..Len(s) : s[i] = v})
Values(s) == {s[i] : i \in 1..Len(s)}

\* The orders Series.value_counts() may return the distinct non-null values
\* of s in: descending by count.  pandas sorts the counts with an unstable
\* sort (sort_values, kind='quicksort') and documents no order among equal
\* counts, so every count-descending order is a possible outcome.
ValueOrders(s) ==
    LET vs == Values(dropna(s))
        n == Cardinality(vs)
    IN  {o \in [1..n -> vs] :
            /\ \A i, j \in 1..n : i # j => o[i] # o[j]
            /\ \A i, j \in 1..n : i < j => Count(s, o[i]) >= Count(s, o[j])}

\* Series.value_counts(), the order among equal counts being `order`.
value_counts(s, order) ==
    [k \in 1..Len(order) |-> [value |-> order[k], count |-> Count(s, order[k])]]

Index(vc) == [k \in 1..Len(vc) |-> vc[k].value]

\* pd.crosstab(a, b): the count of every pair of observed values.
crosstab(rows, a, b) ==
    [p \in (Cells(rows, a) \ {NA}) \X (Cells(rows, b) \ {NA}) |->
        Cardinality({i \in 1..Len(rows) : rows[i][a] = p[1] /\ rows[i][b] = p[2]})]

(***************************************************************************)
(* kpis, lines 45-57.                                                      *)
(***************************************************************************)
adoption_rate_unguarded(fintech_count, total) == Rat(fintech_count * 100, total)

\* line 49: fintech_count / total * 100 if total else 0
adoption_rate(fintech_count, total) ==
    IF total # 0 THEN Rat(fintech_count * 100, total) ELSE Zero

NoKpis == [total |-> 0, fintech_count |-> 0, adoption_rate |-> Zero,
           monthly_avg_users |-> Zero, total_countries |-> 0]

\* [err |-> None, value |-> the tuple returned], or the exception raised.
kpis(f) ==
    LET total == Len(f.rows)
        fintech_users ==
            IF "Fintech_Used" \in f.cols
            THEN BoolIndex(f.rows, Mask(f.rows, is_fintech_user))
            ELSE <<>>
        fintech_count == Len(fintech_users)
    IN  IF "Year" \in f.cols /\ "Fintech_Used" \notin f.cols
        THEN [err |-> "KeyError", value |-> NoKpis]
        ELSE LET by_year ==
                     IF "Year" \in f.cols
                     THEN groupby_size(BoolIndex(f.rows, Mask(f.rows, is_fintech_user)), "Year")
                     ELSE <<>>
                 monthly_avg_users ==
                     IF "Year" \in f.cols /\ by_year # <<>>
                     THEN Rat(SumSizes(by_year), Len(by_year))
                     ELSE Zero
                 total_countries ==
                     IF "Country" \in f.cols
                     THEN Cardinality(Cells(f.rows, "Country") \ {NA})
                     ELSE 0
             IN  [err |-> None,
                  value |-> [total |-> total,
                             fintech_count |-> fintech_count,
                             adoption_rate |-> adoption_rate(fintech_count, total),
                             monthly_avg_users |-> monthly_avg_users,
                             total_countries |-> total_countries]]

(***************************************************************************)
(* The page functions.  Each returns what it computes for the charts, the  *)
(* exception it raises if any, and the frame it was given as the frame is  *)
(* when the function returns.                                              *)
(***************************************************************************)
NoOut ==
    [fn |-> None, err |-> None, kpis |-> NoKpis, counts |-> <<>>, table |-> <<>>,
     ct |-> <<>>, pt |-> <<>>, top_usecases |-> <<>>, top_barriers |-> <<>>,
     percent_active |-> Zero, positive |-> 0]

\* overview_page, lines 60-141
overview_page(f, order) ==
    LET k == kpis(f)
    IN  IF k.err # None
        THEN [arg |-> f, out |-> [NoOut EXCEPT !.fn = "overview_page", !.err = k.err]]
        ELSE IF "Country" \notin f.cols
        THEN [arg |-> f,
              out |-> [NoOut EXCEPT !.fn = "overview_page", !.err = "KeyError",
                                    !.kpis = k.value]]
        ELSE [arg |-> f,
              out |-> [NoOut EXCEPT !.fn = "overview_page", !.kpis = k.value,
                          !.counts = head(value_counts(Series(f.rows, "Country"), order), 15)]]

\* merged.sort_values('Year'): insertion of each row at its place.
RECURSIVE sort_values(_)
sort_values(t) ==
    IF t = <<>> THEN <<>>
    ELSE LET rest == sort_values(Tail(t))
             lo == SelectSeq(rest, LAMBDA x : x.Year < Head(t).Year)
             hi == SelectSeq(rest, LAMBDA x : ~(x.Year < Head(t).Year))
         IN  lo \o <<Head(t)>> \o hi

\* df.copy().dropna(subset=['Year']) followed by Year.astype(int): whole years.
df_year_of(f) ==
    LET kept == BoolIndex(f.rows, Mask(f.rows, LAMBDA r : r["Year"] # NaN))
    IN  [i \in 1..Len(kept) |-> [kept[i] EXCEPT !["Year"] = int(@)]]

\* trends_page, lines 144-169
trends_page(f) ==
    IF "Year" \notin f.cols
    THEN [arg |-> f, out |-> [NoOut EXCEPT !.fn = "trends_page"]]
    ELSE IF "Fintech_Used" \notin f.cols
    THEN [arg |-> f, out |-> [NoOut EXCEPT !.fn = "trends_page", !.err = "KeyError"]]
    ELSE LET df_year == df_year_of(f)
             total_by_year == groupby_size(df_year, "Year")
             fintech_by_year ==
                 groupby_size(BoolIndex(df_year, Mask(df_year, is_fintech_user)), "Year")
             users(y) ==
                 IF \E k \in 1..Len(fintech_by_year) : fintech_by_year[k].key = y
                 THEN (CHOOSE g \in Values(fintech_by_year) : g.key = y).size
                 ELSE 0
             merged == sort_values(
                 [k \in 1..Len(total_by_year) |->
                     [Year |-> total_by_year[k].key,
                      Total |-> total_by_year[k].size,
                      Fintech_Users |-> users(total_by_year[k].key)]])
         IN  [arg |-> f,
              out |-> [NoOut EXCEPT !.fn = "trends_page",
                          !.table = [k \in 1..Len(merged) |->
                              [Year |-> merged[k].Year,
                               Total |-> merged[k].Total,
                               Fintech_Users |-> merged[k].Fintech_Users,
                               Adoption_Rate |->
                                   Rat(merged[k].Fintech_Users * 100, merged[k].Total)]]]]

\* demographics_page, lines 172-201
demographics_page(f, order) ==
    [arg |-> f,
     out |-> [NoOut EXCEPT !.fn = "demographics_page",
                 !.ct = IF "Gender" \in f.cols /\ "Fintech_Used" \in f.cols
                        THEN crosstab(f.rows, "Gender", "Fintech_Used") ELSE <<>>,
                 !.counts = IF "Age_Group" \in f.cols
                            THEN value_counts(Series(f.rows, "Age_Group"), order)
                            ELSE <<>>,
                 !.pt = IF "Phone_Type" \in f.cols /\ "Urban_Rural" \in f.cols
                        THEN crosstab(f.rows, "Phone_Type", "Urban_Rural") ELSE <<>>]]

\* usecases_page, lines 204-222
usecases_page(f, order) ==
    [arg |-> f,
     out |-> [NoOut EXCEPT !.fn = "usecases_page",
                 !.counts = IF "Use_Case_1" \in f.cols
                            THEN head(value_counts(replace_nan(Series(f.rows, "Use_Case_1")), order), 15)
                            ELSE <<>>,
                 !.positive = IF "Monthly_Transactions" \in f.cols
                              THEN Len(BoolIndex(f.rows,
                                     Mask(f.rows, LAMBDA r : r["Monthly_Transactions"] > 0)))
                              ELSE 0]]

\* line 241: (active / total * 100) if total else 0
percent_active(active, total) ==
    IF total # 0 THEN Rat(active * 100, total) ELSE Zero

\* conclusion_page, lines 225-284
conclusion_page(f, orderU, orderB) ==
    [arg |-> f,
     out |-> [NoOut EXCEPT !.fn = "conclusion_page",
                 !.top_usecases =
                     IF "Use_Case_1" \in f.cols
                     THEN Index(head(value_counts(replace_nan(Series(f.rows, "Use_Case_1")), orderU), 3))
                     ELSE <<"N/A", "N/A", "N/A">>,
                 !.top_barriers =
                     IF "Barrier" \in f.cols
                     THEN Index(head(value_counts(replace_nan(Series(f.rows, "Barrier")), orderB), 3))
                     ELSE <<"N/A", "N/A", "N/A">>,
                 !.percent_active =
                     IF "Fintech_Used" \in f.cols
                     THEN percent_active(
                              Len(BoolIndex(f.rows, Mask(f.rows, is_fintech_user))),
                              Len(f.rows))
                     ELSE Zero]]

\* The orders value_counts may take for column c of f (one empty order when
\* the column is absent and value_counts is not called).
OrdersOf(f, c) ==
    IF c \in f.cols THEN ValueOrders(replace_nan(Series(f.rows, c))) ELSE {<<>>}

(***************************************************************************)
(* main, lines 287-335: the widgets' options, the filter step, the page.   *)
(***************************************************************************)
Pages == {"Overview", "Trends", "Demographics", "Conclusion"}

\* Python truthiness of a selection: None and the empty string are false.
Truthy(x) == x # None /\ x # ""

\* ['All'] + sorted(df[c].dropna().unique().tolist()) if c in df.columns else ['All']
OptionsOf(f, c) ==
    IF c \in f.cols THEN {"All"} \cup (Cells(f.rows, c) \ {NA}) ELSE {"All"}

YearValues(f) == Cells(f.rows, "Year") \ {NaN}

\* The pairs the Year slider can return: min_y <= low <= high <= max_y with
\* min_y = int(min), max_y = int(max); <<>> stands for years = None.
YearRanges(f) ==
    IF "Year" \notin f.cols THEN {<<>>}
    ELSE IF YearValues(f) = {} THEN {}
    ELSE LET min_y == int(Min(YearValues(f)))
             max_y == int(Max(YearValues(f)))
         IN  {y \in (min_y..max_y) \X (min_y..max_y) : y[1] <= y[2]}

\* lines 300-301 raise ValueError: min() of an empty series is NaN, and
\* int(NaN) raises.
year_slider_raises(f, pg) ==
    IF pg = "Conclusion" \/ "Year" \notin f.cols THEN FALSE ELSE YearValues(f) = {}

\* The slider's default value=(min_y, max_y).
DefaultYears(f) ==
    IF "Year" \notin f.cols \/ YearValues(f) = {} THEN <<>>
    ELSE <<int(Min(YearValues(f))), int(Max(YearValues(f)))>>

NoSel == [country |-> None, years |-> <<>>, gender |-> None,
          age_group |-> None, location_sel |-> None]

\* The widgets' values on the first run of a page: index=0 ('All') and
\* value=(min_y, max_y); on the Conclusion page line 313 sets them to None.
DefaultSel(f, pg) ==
    IF pg = "Conclusion" THEN NoSel
    ELSE [country |-> "All", years |-> DefaultYears(f), gender |-> "All",
          age_group |-> "All", location_sel |-> "All"]

\* The selections that differ from s in the value of one filter widget.
OneWidgetChanged(f, s) ==
    ({[s EXCEPT !.country = v] : v \in OptionsOf(f, "Country")}
     \cup {[s EXCEPT !.years = y] : y \in YearRanges(f)}
     \cup {[s EXCEPT !.gender = v] : v \in OptionsOf(f, "Gender")}
     \cup {[s EXCEPT !.age_group = v] : v \in OptionsOf(f, "Age_Group")}
     \cup {[s EXCEPT !.location_sel = v] : v \in OptionsOf(f, "Urban_Rural")}) \ {s}

\* Series >= y and Series <= y on a Year holding a number or NaN.
year_ge(v, y) == v # NaN /\ v >= Halves(y, 0)
year_le(v, y) == v # NaN /\ v <= Halves(y, 0)

filtered_rows_upper_exclusive(d, s) ==
    LET f0 == d.rows
        f1 == IF Truthy(s.country) /\ s.country # "All"
              THEN BoolIndex(f0, Mask(f0, LAMBDA r : r["Country"] = s.country)) ELSE f0
        f2 == IF s.years # <<>>
              THEN BoolIndex(f1, Mask(f1, LAMBDA r :
                       year_ge(r["Year"], s.years[1]) /\ year_le(r["Year"], s.years[2] - 1)))
              ELSE f1
        f3 == IF Truthy(s.gender) /\ s.gender # "All"
              THEN BoolIndex(f2, Mask(f2, LAMBDA r : r["Gender"] = s.gender)) ELSE f2
        f4 == IF Truthy(s.age_group) /\ s.age_group # "All"
              THEN BoolIndex(f3, Mask(f3, LAMBDA r : r["Age_Group"] = s.age_group)) ELSE f3
    IN  IF Truthy(s.location_sel) /\ s.location_sel # "All"
        THEN BoolIndex(f4, Mask(f4, LAMBDA r : r["Urban_Rural"] = s.location_sel)) ELSE f4

\* lines 316-326: the five filters applied one after the other to a copy
filtered_rows(d, s) ==
    LET f0 == d.rows
        f1 == IF Truthy(s.country) /\ s.country # "All"
              THEN BoolIndex(f0, Mask(f0, LAMBDA r : r["Country"] = s.country)) ELSE f0
        f2 == IF s.years # <<>>
              THEN BoolIndex(f1, Mask(f1, LAMBDA r :
                       year_ge(r["Year"], s.years[1]) /\ year_le(r["Year"], s.years[2])))
              ELSE f1
        f3 == IF Truthy(s.gender) /\ s.gender # "All"
              THEN BoolIndex(f2, Mask(f2, LAMBDA r : r["Gender"] = s.gender)) ELSE f2
        f4 == IF Truthy(s.age_group) /\ s.age_group # "All"
              THEN BoolIndex(f3, Mask(f3, LAMBDA r : r["Age_Group"] = s.age_group)) ELSE f3
    IN  IF Truthy(s.location_sel) /\ s.location_sel # "All"
        THEN BoolIndex(f4, Mask(f4, LAMBDA r : r["Urban_Rural"] = s.location_sel)) ELSE f4

apply_filters_in_place(d, s) ==
    [df |-> [d EXCEPT !.rows = filtered_rows(d, s)],
     df_filtered |-> [d EXCEPT !.rows = filtered_rows(d, s)]]

\* The filter step as a whole: the loaded frame df as it is afterwards, and
\* df_filtered, a new frame (df.copy(), then one new frame per df[mask]).
apply_filters(d, s) ==
    [df |-> d, df_filtered |-> [d EXCEPT !.rows = filtered_rows(d, s)]]

SeriesOrders(f, c) == IF c \in f.cols THEN ValueOrders(Series(f.rows, c)) ELSE {<<>>}

\* lines 328-335: what the selected page function may return on f.
PageResults(pg, f) ==
    CASE pg = "Overview" -> {overview_page(f, o) : o \in SeriesOrders(f, "Country")}
      [] pg = "Trends" -> {trends_page(f)}
      [] pg = "Demographics" -> {demographics_page(f, o) : o \in SeriesOrders(f, "Age_Group")}
      [] pg = "Conclusion" ->
            {conclusion_page(f, oU, oB) :
                oU \in OrdersOf(f, "Use_Case_1"), oB \in OrdersOf(f, "Barrier")}

NoRet == [path |-> None, value |-> EmptyFrame]

(***************************************************************************)
(* SpecLoad: any sequence of load_data calls, the files changing meanwhile.*)
(***************************************************************************)
InitLoad ==
    /\ fs \in [Paths -> FilesLoad]
    /\ STREAMLIT_AVAILABLE \in BOOLEAN
    /\ cache = <<>>
    /\ reads = [p \in Paths |-> 0]
    /\ calls = [p \in Paths |-> 0]
    /\ writes = 0
    /\ first = <<>>
    /\ ret = NoRet
    /\ df = EmptyFrame
    /\ page = None
    /\ sel = NoSel
    /\ df_filtered = EmptyFrame
    /\ out = NoOut

CallLoadData(path) ==
    /\ calls[DataPath] + calls[OtherPath] < MaxLoads
    /\ LET r == load_data(path)
       IN  /\ cache' = r.cache
           /\ reads' = [reads EXCEPT ![path] = @ + (IF r.read THEN 1 ELSE 0)]
           /\ calls' = [calls EXCEPT ![path] = @ + 1]
           /\ first' = IF path \in DOMAIN first THEN first
                       ELSE [p \in DOMAIN first \cup {path} |->
                                IF p = path THEN r.value ELSE first[p]]
           /\ ret' = [path |-> path, value |-> r.value]
    /\ UNCHANGED <<fs, STREAMLIT_AVAILABLE, writes, mainVars>>

\* The environment rewrites a file between two calls.
WriteFile(path, file) ==
    /\ writes < MaxWrites
    /\ file # fs[path]
    /\ fs' = [fs EXCEPT ![path] = file]
    /\ writes' = writes + 1
    /\ UNCHANGED <<STREAMLIT_AVAILABLE, cache, reads, calls, first, ret, mainVars>>

NextLoad ==
    \/ \E path \in Paths : CallLoadData(path)
    \/ \E path \in Paths, file \in FilesLoad : WriteFile(path, file)

SpecLoad == InitLoad /\ [][NextLoad]_vars

(***************************************************************************)
(* SpecMain: render cycles.  One run of main loads the data, reads the     *)
(* widgets (the user's page and filter selection), filters and calls the   *)
(* page function.                                                          *)
(***************************************************************************)
InitMain ==
    /\ fs \in [Paths -> Files]
    /\ fs[OtherPath] = MkFrame(Columns, <<>>)
    /\ STREAMLIT_AVAILABLE \in BOOLEAN
    /\ cache = <<>>
    /\ reads = [p \in Paths |-> 0]
    /\ calls = [p \in Paths |-> 0]
    /\ writes = 0
    /\ first = <<>>
    /\ ret = NoRet
    /\ df = EmptyFrame
    /\ page = None
    /\ sel = NoSel
    /\ df_filtered = EmptyFrame
    /\ out = NoOut

\* One run of main, the widgets holding page pg and selection s.
main(pg, s) ==
    LET r == load_data(DataPath)
        d == r.value
    IN  /\ cache' = r.cache
        /\ UNCHANGED <<fs, STREAMLIT_AVAILABLE, reads, calls, writes, first, ret>>
        /\ \/ \* st is None: st.sidebar raises at line 289
              /\ ~STREAMLIT_AVAILABLE
              /\ df' = d /\ page' = None /\ sel' = NoSel /\ df_filtered' = EmptyFrame
              /\ out' = [NoOut EXCEPT !.fn = "main", !.err = "AttributeError"]
           \/ \* int() of the NaN that min() of an empty series is, lines 300-301
              /\ STREAMLIT_AVAILABLE
              /\ year_slider_raises(d, pg)
              /\ df' = d /\ page' = pg /\ sel' = NoSel /\ df_filtered' = EmptyFrame
              /\ out' = [NoOut EXCEPT !.fn = "main", !.err = "ValueError"]
           \/ /\ STREAMLIT_AVAILABLE
              /\ ~year_slider_raises(d, pg)
              /\ LET a == apply_filters(d, s)
                 IN  \E res \in PageResults(pg, a.df_filtered) :
                        /\ df' = a.df /\ page' = pg /\ sel' = s
                        /\ df_filtered' = res.arg
                        /\ out' = res.out

\* The user opens a page: its widgets are new (their keys name the page) and
\* take their defaults.
SelectPage(pg) ==
    /\ pg # page
    /\ main(pg, DefaultSel(load_data(DataPath).value, pg))

\* The user changes one filter widget of the page shown: main runs again.
SetFilter(s) == main(page, s)

\* The filter widgets are on the screen when the last run got past them, on
\* a page other than Conclusion.
FilterChoices ==
    IF page \in Pages \ {"Conclusion"} /\ out.fn # "main"
    THEN OneWidgetChanged(df, sel)
    ELSE {}

NextMain ==
    \/ \E pg \in Pages : SelectPage(pg)
    \/ \E s \in FilterChoices : SetFilter(s)

SpecMain == InitMain /\ [][NextMain]_vars

(***************************************************************************)
(* SpecAgg: kpis, trends_page, usecases_page and conclusion_page as        *)
(* functions of a dataset.  Init draws the dataset, and each action        *)
(* applies one function to it.                                             *)
(***************************************************************************)
\* A cleaned record: Year a number or NaN, strings filled.
AggRec(used, year, uc1, barrier) ==
    [c \in Columns |->
        CASE c = "Country" -> "Kenya"
          [] c = "Gender" -> "Female"
          [] c = "Age_Group" -> "18-25"
          [] c = "Fintech_Used" -> used
          [] c = "Year" -> year
          [] c = "Urban_Rural" -> "Urban"
          [] c = "Phone_Type" -> "Smartphone"
          [] c = "Use_Case_1" -> uc1
          [] c = "Use_Case_2" -> "Unknown"
          [] c = "Barrier" -> barrier
          [] c = "Monthly_Transactions" -> 5
          [] c = "Avg_Transaction_Value" -> 20]

UsageRecs ==
    {AggRec(u, y, "Payments", "Cost") :
        u \in {"Yes", "YES", "no"},
        y \in {Halves(2020, 0), Halves(2020, 1), Halves(2021, 0), NaN}}

BarrierOf(uc1) ==
    CASE uc1 = "A" -> "Cost" [] uc1 = "B" -> "Trust" [] uc1 = "C" -> NA
      [] uc1 = "Unknown" -> "nan" [] OTHER -> "Unknown"

UseCaseRecs ==
    {AggRec("Yes", Halves(2020, 0), uc1, BarrierOf(uc1)) :
        uc1 \in {"A", "B", "C", "Unknown", "nan"}}

\* 10 records over 2020 and 2021, two fintech users in each year.
ExampleUsage ==
    MkFrame(Columns,
        <<AggRec("Yes", Halves(2020, 0), "A", "Cost"), AggRec("YES", Halves(2020, 0), "A", "Cost"),
          AggRec("no", Halves(2020, 0), "A", "Cost"), AggRec("no", Halves(2020, 0), "A", "Cost"),
          AggRec("No", Halves(2020, 0), "A", "Cost"),
          AggRec("yes", Halves(2021, 0), "A", "Cost"), AggRec("yEs", Halves(2021, 0), "A", "Cost"),
          AggRec("no", Halves(2021, 0), "A", "Cost"), AggRec("NO", Halves(2021, 0), "A", "Cost"),
          AggRec("Unknown", Halves(2021, 0), "A", "Cost")>>)

\* Use_Case_1 = [A, A, B, Unknown, B, A]
ExampleUseCases ==
    MkFrame(Columns,
        <<AggRec("Yes", NaN, "A", "Cost"), AggRec("Yes", NaN, "A", "Cost"),
          AggRec("Yes", NaN, "B", "Cost"), AggRec("Yes", NaN, "Unknown", "Cost"),
          AggRec("Yes", NaN, "B", "Cost"), AggRec("Yes", NaN, "A", "Cost")>>)

Datasets ==
    {MkFrame(cols, s) :
        cols \in {Columns, Columns \ {"Year"}, Columns \ {"Fintech_Used"}},
        s \in SeqsUpTo(UsageRecs, MaxAggRows)}
    \cup {MkFrame(cols, s) :
        cols \in {Columns, Columns \ {"Use_Case_1"}, Columns \ {"Barrier"}},
        s \in SeqsUpTo(UseCaseRecs, MaxAggRows + 2)}
    \cup {ExampleUsage, ExampleUseCases}

InitAgg ==
    /\ fs = [p \in Paths |-> MkFrame(Columns, <<>>)]
    /\ STREAMLIT_AVAILABLE = TRUE
    /\ cache = <<>>
    /\ reads = [p \in Paths |-> 0]
    /\ calls = [p \in Paths |-> 0]
    /\ writes = 0
    /\ first = <<>>
    /\ ret = NoRet
    /\ df = EmptyFrame
    /\ page = None
    /\ sel = NoSel
    /\ df_filtered \in Datasets
    /\ out = NoOut

Return(res) ==
    /\ out.fn = None
    /\ df_filtered' = res.arg
    /\ out' = res.out
    /\ UNCHANGED <<loadVars, df, page, sel>>

CallKpis ==
    LET k == kpis(df_filtered)
    IN  Return([arg |-> df_filtered,
                out |-> [NoOut EXCEPT !.fn = "kpis", !.err = k.err, !.kpis = k.value]])

CallTrendsPage == Return(trends_page(df_filtered))

CallUsecasesPage ==
    \E o \in OrdersOf(df_filtered, "Use_Case_1") : Return(usecases_page(df_filtered, o))

CallConclusionPage ==
    \E oU \in OrdersOf(df_filtered, "Use_Case_1"), oB \in OrdersOf(df_filtered, "Barrier") :
        Return(conclusion_page(df_filtered, oU, oB))

NextAgg ==
    \/ CallKpis
    \/ CallTrendsPage
    \/ CallUsecasesPage
    \/ CallConclusionPage

SpecAgg == InitAgg /\ [][NextAgg]_vars

(***************************************************************************)
(* The claims.                                                             *)
(***************************************************************************)
Ran == page \in Pages /\ out.fn # "main"

Active(x) == x # None /\ x # "All"

\* A record satisfies every active predicate of a selection.
Satisfies(r, s) ==
    /\ Active(s.country) => r["Country"] = s.country
    /\ s.years # <<>> =>
          /\ r["Year"] # NaN
          /\ 2 * s.years[1] <= r["Year"]
          /\ r["Year"] <= 2 * s.years[2]
    /\ Active(s.gender) => r["Gender"] = s.gender
    /\ Active(s.age_group) => r["Age_Group"] = s.age_group
    /\ Active(s.location_sel) => r["Urban_Rural"] = s.location_sel

\* The k-th smallest element of a set of numbers.
Kth(S, k) == CHOOSE x \in S : Cardinality({y \in S : y <= x}) = k

\* C1: the filtered dataset holds exactly the records of the loaded dataset
\* that satisfy every active predicate of the selection, no other record,
\* in their order in the loaded dataset.
C1_FilterIsOrderedSubsequence ==
    Ran =>
        LET kept == {i \in 1..Len(df.rows) : Satisfies(df.rows[i], sel)}
        IN  /\ df_filtered.cols = df.cols
            /\ Len(df_filtered.rows) = Cardinality(kept)
            /\ \A k \in 1..Len(df_filtered.rows) :
                  df_filtered.rows[k] = df.rows[Kth(kept, k)]

C1_Witness ==
    /\ Ran
    /\ Len(df.rows) = 2
    /\ Len(df_filtered.rows) = 1
    /\ Active(sel.gender)
    /\ sel.years # <<>> /\ sel.years # DefaultYears(df)

\* C2: with every selector at 'All' and the Year range at its default, the
\* filtered dataset is content-equal to the loaded one, null Years included.
C2_DefaultSelectionKeepsAll ==
    (Ran /\ sel = DefaultSel(df, page)) => df_filtered = df

InRange(r) == r.den > 0 /\ 0 <= r.num /\ r.num <= 100 * r.den
IsZero(r) == r.den > 0 /\ r.num = 0

IsYes(x) == x \in {"yes", "Yes", "yEs", "yeS", "YEs", "YeS", "yES", "YES"}

FintechUsers(D) ==
    IF "Fintech_Used" \in D.cols
    THEN {i \in 1..Len(D.rows) : IsYes(D.rows[i]["Fintech_Used"])}
    ELSE {}

MeanOfYearCounts(D, m) ==
    LET dated == {i \in FintechUsers(D) : D.rows[i]["Year"] # NaN}
        years == {D.rows[i]["Year"] : i \in dated}
    IN  /\ m.den > 0
        /\ IF years = {} THEN m.num = 0
           ELSE m.num * Cardinality(years) = m.den * Cardinality(dated)

\* C4: kpis returns monthly_avg_users, the mean of the per-Year counts of
\* fintech users ('yes' in any case), and 0 without a Year column or without
\* a fintech user; the 10-record example gives 10, 4, 40 and 2.
C4_MonthlyAverage ==
    out.fn = "kpis" =>
        LET D == df_filtered
            m == out.kpis.monthly_avg_users
        IN  /\ out.err = None
            /\ IF "Year" \notin D.cols \/ FintechUsers(D) = {}
               THEN IsZero(m)
               ELSE MeanOfYearCounts(D, m)
            /\ D = ExampleUsage =>
                  /\ out.kpis.total = 10
                  /\ out.kpis.fintech_count = 4
                  /\ out.kpis.adoption_rate.num = 40 * out.kpis.adoption_rate.den
                  /\ m.num = 2 * m.den

\* What C4 says, of the datasets on which kpis returns.
KpisMeanWhereReturned == (out.fn = "kpis" /\ out.err # None) \/ C4_MonthlyAverage

\* C5: the per-year table of trends_page has one row per distinct non-null
\* Year of the dataset, in strictly ascending Year order, a year without a
\* fintech user kept with Fintech_Users = 0, and in every row
\* Adoption_Rate = Fintech_Users / Total * 100.
C5_PerYearTable ==
    (out.fn = "trends_page" /\ "Year" \in df_filtered.cols) =>
        LET D == df_filtered
            t == out.table
        IN  /\ out.err = None
            /\ Len(t) = Cardinality(YearValues(D))
            /\ {2 * t[k].Year : k \in 1..Len(t)} = YearValues(D)
            /\ \A i, j \in 1..Len(t) : i < j => t[i].Year < t[j].Year
            /\ \A k \in 1..Len(t) :
                  /\ t[k].Total = Cardinality({i \in 1..Len(D.rows) : D.rows[i]["Year"] = 2 * t[k].Year})
                  /\ t[k].Fintech_Users =
                        Cardinality({i \in FintechUsers(D) : D.rows[i]["Year"] = 2 * t[k].Year})
                  /\ t[k].Adoption_Rate.den > 0
                  /\ t[k].Adoption_Rate.num * t[k].Total
                        = 100 * t[k].Fintech_Users * t[k].Adoption_Rate.den

\* What C5 says, of the datasets that have a Fintech_Used column and whole
\* Years only.
TrendsTableOfWholeYears ==
    (/\ "Fintech_Used" \in df_filtered.cols
     /\ "Year" \in df_filtered.cols
     /\ \A y \in YearValues(df_filtered) : y % 2 = 0) => C5_PerYearTable

StringColumns == str_cols \cup {"Barrier"}

\* C6: after load_data every expected column exists, no cell of a string
\* column (Barrier included) is missing, Year holds a number or null, and a
\* numeric column the file lacks holds 0 in every record.
C6_ExpectedColumnsAfterLoad ==
    ret.path # None =>
        LET d == ret.value
        IN  /\ Columns \subseteq d.cols
            /\ \A i \in 1..Len(d.rows) :
                  /\ \A c \in StringColumns : d.rows[i][c] # NA
                  /\ d.rows[i]["Year"] \in Int
                  /\ \A c \in num_cols \ fs[ret.path].cols : d.rows[i][c] = 0

OptionalColumns ==
    {"Country", "Gender", "Age_Group", "Fintech_Used", "Year", "Urban_Rural",
     "Phone_Type", "Use_Case_1", "Barrier"}

\* C7: with one optional column absent from the file, a render cycle that
\* reaches the page function ends without an error, on any page.
C7_MissingColumnIsSoft ==
    (/\ Ran
     /\ \E c \in OptionalColumns : fs[DataPath].cols = Columns \ {c})
    => out.err = None

\* C8 as stated: per path only the first call reads the file, and every
\* later call returns the first call's result; with or without streamlit.
C8_ReadOncePerPath ==
    \A p \in Paths :
        /\ reads[p] <= 1
        /\ ret.path = p => ret.value = first[p]

\* C8 as amended: that holds when streamlit is installed; with the fallback
\* _cache every call reads the file.
C8_ReadOnceWithStreamlit ==
    \A p \in Paths :
        IF STREAMLIT_AVAILABLE
        THEN /\ reads[p] = (IF calls[p] > 0 THEN 1 ELSE 0)
             /\ ret.path = p => ret.value = first[p]
        ELSE reads[p] = calls[p]

C8_Witness ==
    /\ STREAMLIT_AVAILABLE
    /\ calls[DataPath] >= 2
    /\ reads[DataPath] = 1
    /\ ret.path = DataPath
    /\ ret.value # load_data_body(fs[DataPath])

\* C9: after any sequence of render cycles the loaded dataset is as load_data
\* returned it, and so is the cached one; the page function leaves the
\* filtered frame it is given as the filter step made it.
C9_LoadedDatasetUnmodified ==
    out.fn # None =>
        /\ df = load_data_body(fs[DataPath])
        /\ STREAMLIT_AVAILABLE => cache[DataPath] = df
        /\ Ran => df_filtered = [df EXCEPT !.rows = filtered_rows(df, sel)]

C9_Witness ==
    /\ page = "Trends"
    /\ Active(sel.country)
    /\ Len(df_filtered.rows) < Len(df.rows)
    /\ Len(out.table) >= 1

Merged(v) == IF v = "nan" THEN "Unknown" ELSE v

MergedCount(D, c, v) ==
    Cardinality({i \in 1..Len(D.rows) : D.rows[i][c] # NA /\ Merged(D.rows[i][c]) = v})

MergedValues(D, c) == {Merged(v) : v \in Cells(D.rows, c) \ {NA}}

FirstIndex(D, c, v) == Min({i \in 1..Len(D.rows) : Merged(D.rows[i][c]) = v})

\* A list of values is a top-n list of column c: at most n distinct values,
\* 'nan' counted as 'Unknown', in descending order of count, no value left
\* out that occurs more often than a listed one.
TopN(l, D, c, n) ==
    /\ Len(l) <= n
    /\ Len(l) = (IF Cardinality(MergedValues(D, c)) < n
                 THEN Cardinality(MergedValues(D, c)) ELSE n)
    /\ \A k \in 1..Len(l) : l[k] \in MergedValues(D, c) /\ l[k] # "nan"
    /\ \A i, j \in 1..Len(l) : i < j =>
          /\ l[i] # l[j]
          /\ MergedCount(D, c, l[i]) >= MergedCount(D, c, l[j])
    /\ \A v \in MergedValues(D, c) \ Values(l) :
          \A k \in 1..Len(l) : MergedCount(D, c, v) <= MergedCount(D, c, l[k])

TiesByFirstOccurrence(l, D, c) ==
    \A i, j \in 1..Len(l) :
        (i < j /\ MergedCount(D, c, l[i]) = MergedCount(D, c, l[j]))
            => FirstIndex(D, c, l[i]) < FirstIndex(D, c, l[j])

\* C10 as amended: the lists of conclusion_page (n = 3) and usecases_page
\* (n = 15) are top-n lists, the order among equal counts left open; the
\* example gives A, B, Unknown with counts 3, 2, 1.
C10_TopNByCount ==
    LET D == df_filtered
    IN  /\ (out.fn = "conclusion_page" /\ "Use_Case_1" \in D.cols) =>
              TopN(out.top_usecases, D, "Use_Case_1", 3)
        /\ (out.fn = "conclusion_page" /\ "Barrier" \in D.cols) =>
              TopN(out.top_barriers, D, "Barrier", 3)
        /\ (out.fn = "usecases_page" /\ "Use_Case_1" \in D.cols) =>
              /\ TopN(Index(out.counts), D, "Use_Case_1", 15)
              /\ \A k \in 1..Len(out.counts) :
                    out.counts[k].count = MergedCount(D, "Use_Case_1", out.counts[k].value)
        /\ (out.fn = "conclusion_page" /\ D = ExampleUseCases) =>
              out.top_usecases = <<"A", "B", "Unknown">>
        /\ (out.fn = "usecases_page" /\ D = ExampleUseCases) =>
              out.counts = <<[value |-> "A", count |-> 3], [value |-> "B", count |-> 2],
                             [value |-> "Unknown", count |-> 1]>>

\* C10 as stated: moreover equal counts come in the order of first
\* occurrence in the dataset.
C10_TopNTiesByFirstOccurrence ==
    LET D == df_filtered
    IN  /\ C10_TopNByCount
        /\ (out.fn = "conclusion_page" /\ "Use_Case_1" \in D.cols) =>
              TiesByFirstOccurrence(out.top_usecases, D, "Use_Case_1")
        /\ (out.fn = "conclusion_page" /\ "Barrier" \in D.cols) =>
              TiesByFirstOccurrence(out.top_barriers, D, "Barrier")
        /\ (out.fn = "usecases_page" /\ "Use_Case_1" \in D.cols) =>
              TiesByFirstOccurrence(Index(out.counts), D, "Use_Case_1")

C10_Witness ==
    /\ out.fn = "conclusion_page"
    /\ "Use_Case_1" \in df_filtered.cols
    /\ {"nan", "Unknown", "A", "B"} \subseteq Cells(df_filtered.rows, "Use_Case_1")
    /\ out.top_usecases = <<"Unknown", "B", "A">>

====
